---- MODULE Spec2Model ----
(***************************************************************************)
(* Blog content pipeline of lradev-portfolio: the contentlayer document    *)
(* type Post (slug, readTime), the listing page (sort, filter), the detail *)
(* page (lookup by slug, notFound).                                        *)
(*                                                                         *)
(* Strings the code inspects character by character (paths, slugs, titles, *)
(* excerpts, the search text, bodies, readTime) are sequences of           *)
(* one-character strings.  A category is only compared and tested for     *)
(* truthiness, so it is an atomic string inside an option: <<>> is         *)
(* undefined (front-matter without category), <<c>> is the string c.       *)
(***************************************************************************)
EXTENDS Integers, Sequences, FiniteSets

VARIABLES
    files,            \* the content source: matched files, in discovery order
    timezoneOffset,   \* hours the build machine's local time is ahead of UTC
    phase,            \* "source" before the contentlayer build, "built" after
    allPosts,         \* contentlayer/generated allPosts: the shared collection
    mounted,          \* BlogPage has rendered (its useMemo([]) has run)
    sortedPosts,      \* BlogPage.sortedPosts (memoised once per mount)
    searchQuery,      \* BlogPage state
    selectedCategory, \* BlogPage state
    filteredPosts,    \* BlogPage.filteredPosts (memo of the three above)
    categories,       \* BlogPage.categories (memoised once per mount)
    requestedSlug,    \* BlogPostPage: params.slug, <<>> option when idle
    detailPost,       \* BlogPostPage: result of allPosts.find, option
    detailOutcome,    \* "idle" | "rendered" | "notFound"
    now,              \* the clock read by new Date(), in hours
    sitemapResult,    \* what the last call of sitemap() returned, as an option
    previousSitemap,  \* what the call before it returned, as an option
    formData,         \* ContactSection state: name, email, message
    isSubmitting,     \* ContactSection state
    submitted,        \* ContactSection state
    error,            \* ContactSection state: the message shown, "" for none
    pc,               \* handleSubmit: "idle", "fetch" (awaiting fetch), "json" (awaiting json())
    request,          \* the body of the POST in flight, as an option
    response,         \* the response fetch resolved with, as an option
    submitCount,      \* submit events handled by handleSubmit
    requestCount,     \* calls of fetch
    deliveries,       \* messages the contact handler has handed to the delivery service
    apiRequest,       \* the body of the last POST made without the form, as an option
    apiResponse,      \* the handler's response to it, as an option
    sourceConfig,     \* which makeSource configuration builds the site: "current" | "earlier"
    codeSource,       \* a fenced code block of a post body: its lines, each a sequence of tokens
    codeLines,        \* the line nodes the highlighter made of it
    visited,          \* how many of them the highlighter has visited
    highlighting      \* "raw" | "lines" | "done" | "skipped"

sourceVars  == <<files, timezoneOffset, phase, allPosts>>
listingVars == <<mounted, sortedPosts, searchQuery, selectedCategory, filteredPosts,
                 categories>>
detailVars  == <<requestedSlug, detailPost, detailOutcome>>
sitemapVars == <<now, sitemapResult, previousSitemap>>
formVars    == <<formData, isSubmitting, submitted, error, pc, request, response,
                 submitCount, requestCount>>
handlerVars == <<deliveries, apiRequest, apiResponse>>
contactVars == <<formVars, handlerVars>>
highlightVars == <<sourceConfig, codeSource, codeLines, visited, highlighting>>
vars == <<files, timezoneOffset, phase, allPosts, mounted, sortedPosts, searchQuery,
          selectedCategory, filteredPosts, categories, requestedSlug, detailPost,
          detailOutcome, now, sitemapResult, previousSitemap, formData, isSubmitting,
          submitted, error, pc, request, response, submitCount, requestCount,
          deliveries, apiRequest, apiResponse, sourceConfig, codeSource, codeLines,
          visited, highlighting>>

----
(* Bounds *)

\* most files in the content directory
MaxFiles == 3
\* most files in the content directory when only paths vary
MaxPathFiles == 2
\* most whitespace characters before, between and after the words of a body
MaxPad == 2
MaxClock == 2
MaxSubmits == 2
MaxLines == 3

----
(* Strings *)

Slash == "/"
Dot == "."
Space == " "
Newline == "\n"

IsWhitespace(c) == c \in {Space, Newline, "\t"}

StartsWith(s, p) == Len(p) <= Len(s) /\ SubSeq(s, 1, Len(p)) = p

\* index (0-based) of the first occurrence of pat in s from position k on, -1 when none
RECURSIVE IndexOfFrom(_, _, _)
IndexOfFrom(s, pat, k) ==
    IF k + Len(pat) > Len(s) THEN -1
    ELSE IF SubSeq(s, k + 1, k + Len(pat)) = pat THEN k
    ELSE IndexOfFrom(s, pat, k + 1)

\* index (0-based) of the last occurrence of pat in s at or before position k, -1 when none
RECURSIVE LastIndexOfFrom(_, _, _)
LastIndexOfFrom(s, pat, k) ==
    IF k < 0 THEN -1
    ELSE IF k + Len(pat) <= Len(s) /\ SubSeq(s, k + 1, k + Len(pat)) = pat THEN k
    ELSE LastIndexOfFrom(s, pat, k - 1)

\* String.prototype.replace(pattern: string, replacement): the first occurrence only
ReplaceFirst(s, pat, rep) ==
    LET i == IndexOfFrom(s, pat, 0)
    IN  IF i < 0 THEN s
        ELSE SubSeq(s, 1, i) \o rep \o SubSeq(s, i + Len(pat) + 1, Len(s))

\* String.prototype.includes
includes(s, pat) == IndexOfFrom(s, pat, 0) >= 0

LowerChar(c) ==
    CASE c = "A" -> "a"
      [] c = "B" -> "b"
      [] c = "C" -> "c"
      [] OTHER -> c

\* String.prototype.toLowerCase
toLowerCase(s) == [i \in 1..Len(s) |-> LowerChar(s[i])]

EndsWith(s, p) == Len(p) <= Len(s) /\ SubSeq(s, Len(s) - Len(p) + 1, Len(s)) = p

----
(* Content compiler: contentlayer document type Post *)

BlogSeg == <<"b", "l", "o", "g">>
IndexSeg == <<"i", "n", "d", "e", "x">>
MdExt == <<".", "m", "d">>
\* the string 'blog/' of the slug resolver and of filePathPattern
BlogPrefix == BlogSeg \o <<Slash>>

\* filePathPattern `blog/**/*.md`
MatchesFilePathPattern(path) == StartsWith(path, BlogPrefix) /\ EndsWith(path, MdExt)

\* no last '.': split('.').slice(0, -1) is empty
RemoveExtension(path) ==
    LET i == LastIndexOfFrom(path, <<Dot>>, Len(path) - 1)
    IN  IF i < 0 THEN <<>> ELSE SubSeq(path, 1, i)

\* post._raw.flattenedPath: the extension removed, then a root `index` and a
\* trailing `/index` removed
flattenedPath(path) ==
    LET noExt == RemoveExtension(path)
        noRootIndex == IF noExt = IndexSeg THEN <<>> ELSE noExt
    IN  IF EndsWith(noRootIndex, <<Slash>> \o IndexSeg)
        THEN SubSeq(noRootIndex, 1, Len(noRootIndex) - Len(IndexSeg) - 1)
        ELSE noRootIndex

RECURSIVE ReplaceAll(_, _, _)
\* every occurrence replaced (String.prototype.replaceAll), not only the first
ReplaceAll(s, pat, rep) ==
    LET i == IndexOfFrom(s, pat, 0)
    IN  IF i < 0 THEN s
        ELSE SubSeq(s, 1, i) \o rep \o ReplaceAll(SubSeq(s, i + Len(pat) + 1, Len(s)), pat, rep)

slugReplaceAll(fp) == ReplaceAll(fp, BlogPrefix, <<>>)

\* computedFields.slug.resolve
slug(fp) == ReplaceFirst(fp, BlogPrefix, <<>>)

wordsPerMinute == 200

\* the number of maximal runs of whitespace in s
WhitespaceRuns(s) ==
    Cardinality({i \in 1..Len(s) :
        IsWhitespace(s[i]) /\ (i = 1 \/ ~IsWhitespace(s[i - 1]))})

\* the number of maximal runs of non-whitespace in s
WordRuns(s) ==
    Cardinality({i \in 1..Len(s) :
        ~IsWhitespace(s[i]) /\ (i = 1 \/ IsWhitespace(s[i - 1]))})

\* split(/\s+/) followed by a filter that drops the empty pieces
splitLengthNoEmpty(s) == WordRuns(s)

\* body.raw.split(/\s+/).length: the separators are the maximal whitespace runs, so
\* there is one piece more than there are runs; a run at the start or at the end
\* leaves an empty piece there, and the empty string splits into one empty piece
splitLength(s) == WhitespaceRuns(s) + 1

\* Math.ceil(a / b) for a >= 0, b > 0
ceilDiv(a, b) == IF a % b = 0 THEN a \div b ELSE a \div b + 1

DigitChar(d) ==
    CASE d = 0 -> "0" [] d = 1 -> "1" [] d = 2 -> "2" [] d = 3 -> "3" [] d = 4 -> "4"
      [] d = 5 -> "5" [] d = 6 -> "6" [] d = 7 -> "7" [] d = 8 -> "8" [] d = 9 -> "9"

RECURSIVE NumberToString(_)
\* the decimal digits of n >= 0, as the template literal prints it
NumberToString(n) ==
    IF n < 10 THEN <<DigitChar(n)>>
    ELSE NumberToString(n \div 10) \o <<DigitChar(n % 10)>>

MinSuffix == <<Space, "m", "i", "n">>

\* computedFields.readTime.resolve
readTime(body) ==
    LET words == splitLength(body)
        minutes == ceilDiv(words, wordsPerMinute)
    IN  NumberToString(minutes) \o MinSuffix

\* A front-matter date is a calendar day, alone ("2025-12-07") or followed by a
\* time of day without a zone ("2025-12-07T16:00:00"); time is then <<hour>>.
DateOnly(day) == [day |-> day, time |-> <<>>]
DateTime(day, hour) == [day |-> day, time |-> <<hour>>]

HoursPerDay == 24

\* The date field: new Date(raw).toISOString().  A date-only form is read as UTC
\* midnight, a date-time form without a zone as local time of the build machine.
\* The result is the instant, in hours since the epoch; the ISO string of the
\* generated Post denotes exactly that instant.
parseDate(raw, offset) ==
    IF raw.time = <<>> THEN raw.day * HoursPerDay
    ELSE raw.day * HoursPerDay + raw.time[1] - offset

\* the required fields of the Post document type
RequiredFields == {"title", "date", "excerpt"}

\* a file whose front matter has every required field, each of its declared type
IsValidDocument(f) == f.missing \cap RequiredFields = {}

\* one Post per file: the front-matter fields and the computed fields
CompilePost(f, offset) ==
    [ id       |-> f.path,
      flattenedPath |-> flattenedPath(f.path),
      slug     |-> slug(flattenedPath(f.path)),
      title    |-> f.title,
      date     |-> parseDate(f.date, offset),
      excerpt  |-> f.excerpt,
      category |-> f.category,
      body     |-> f.body,
      readTime |-> readTime(f.body) ]

\* makeSource is called without onMissingOrIncompatibleData, so the option has
\* its default: a document with missing or incompatible data is skipped with a
\* warning and the build goes on
onMissingOrIncompatibleData == "skip-warn"

\* the files the document type matches
MatchedFiles(fs) == SelectSeq(fs, LAMBDA f : MatchesFilePathPattern(f.path))

\* the generated collection: the valid matched files, in discovery order
CompileAll(fs, offset) ==
    LET valid == SelectSeq(MatchedFiles(fs), IsValidDocument)
    IN  [i \in 1..Len(valid) |-> CompilePost(valid[i], offset)]

\* whether the build stops: only under the "fail" setting, on an invalid document
BuildFails(fs) ==
    /\ onMissingOrIncompatibleData = "fail"
    /\ \E i \in 1..Len(MatchedFiles(fs)) : ~IsValidDocument(MatchedFiles(fs)[i])

----
(* Listing page: BlogPage *)

\* the sentinel value of the category select
AllCategories == "all"

\* date-fns compareAsc on the two instants
compareAsc(dateLeft, dateRight) ==
    IF dateLeft < dateRight THEN -1 ELSE IF dateLeft > dateRight THEN 1 ELSE 0

\* date-fns compareDesc on the two instants (new Date(post.date))
compareDesc(dateLeft, dateRight) ==
    IF dateLeft < dateRight THEN 1 ELSE IF dateLeft > dateRight THEN -1 ELSE 0

\* the comparator handed to sort
comparePosts(a, b) == compareDesc(a.date, b.date)

Min(S) == CHOOSE x \in S : \A y \in S : x <= y

InsertAt(s, k, x) == SubSeq(s, 1, k - 1) \o <<x>> \o SubSeq(s, k, Len(s))

\* x placed before the elements that compare equal to it: not stable
insertSortedBeforeEqual(sorted, x) ==
    LET notBefore == {i \in 1..Len(sorted) : comparePosts(sorted[i], x) >= 0}
    IN  InsertAt(sorted, IF notBefore = {} THEN Len(sorted) + 1 ELSE Min(notBefore), x)

\* x placed before the first element that must follow it, so after every element
\* that compares equal to it
insertSorted(sorted, x) ==
    LET after == {i \in 1..Len(sorted) : comparePosts(sorted[i], x) > 0}
    IN  InsertAt(sorted, IF after = {} THEN Len(sorted) + 1 ELSE Min(after), x)

RECURSIVE sortInto(_, _)
sortInto(sorted, rest) ==
    IF rest = <<>> THEN sorted ELSE sortInto(insertSorted(sorted, Head(rest)), Tail(rest))

\* Array.prototype.sort with comparePosts: a stable sort (ECMAScript 2019)
sort(posts) == sortInto(<<>>, posts)

\* a test that drops only undefined and keeps the empty string
TruthyDefinedOnly(category) == category # <<>>

\* Boolean(post.category): undefined and "" are falsy
Truthy(category) == category # <<>> /\ category[1] # ""

RECURSIVE uniqueInOrder(_, _)
uniqueInOrder(seen, rest) ==
    IF rest = <<>> THEN seen
    ELSE LET c == Head(rest)
         IN  uniqueInOrder(
                 IF \E i \in 1..Len(seen) : seen[i] = c THEN seen ELSE Append(seen, c),
                 Tail(rest))

\* Array.from(new Set(allPosts.map(post => post.category).filter(Boolean)))
categoriesOf(posts) ==
    LET cats == SelectSeq([i \in 1..Len(posts) |-> posts[i].category], Truthy)
    IN  uniqueInOrder(<<>>, [i \in 1..Len(cats) |-> cats[i][1]])

\* a search that compares without lowering the case
matchesSearchCaseSensitive(post, query) ==
    \/ includes(post.title, query)
    \/ includes(post.excerpt, query)

matchesSearch(post, query) ==
    \/ includes(toLowerCase(post.title), toLowerCase(query))
    \/ includes(toLowerCase(post.excerpt), toLowerCase(query))

matchesCategory(post, category) ==
    category = AllCategories \/ post.category = <<category>>

\* a filter that also drops the first post it keeps
filterPostsSkipFirst(sorted, query, category) ==
    LET kept == SelectSeq(sorted,
                    LAMBDA post : matchesSearch(post, query) /\ matchesCategory(post, category))
    IN  IF kept = <<>> THEN kept ELSE Tail(kept)

\* a filter that returns the kept posts in reverse order
filterPostsReversed(sorted, query, category) ==
    LET kept == SelectSeq(sorted,
                    LAMBDA post : matchesSearch(post, query) /\ matchesCategory(post, category))
    IN  [i \in 1..Len(kept) |-> kept[Len(kept) + 1 - i]]

\* BlogPage.filteredPosts
filterPosts(sorted, query, category) ==
    SelectSeq(sorted, LAMBDA post : matchesSearch(post, query) /\ matchesCategory(post, category))

----
(* Detail page: BlogPostPage *)

\* the last post with the slug (Array.prototype.findLast), as an option
RECURSIVE findLast(_, _)
findLast(posts, s) ==
    IF posts = <<>> THEN <<>>
    ELSE IF posts[Len(posts)].slug = s THEN <<posts[Len(posts)]>>
    ELSE findLast(SubSeq(posts, 1, Len(posts) - 1), s)

\* allPosts.find(post => post.slug === slug), as an option: <<>> is undefined
RECURSIVE find(_, _)
find(posts, s) ==
    IF posts = <<>> THEN <<>>
    ELSE IF Head(posts).slug = s THEN <<Head(posts)>>
    ELSE find(Tail(posts), s)

\* generateStaticParams: allPosts.map(post => ({ slug: post.slug }))
generateStaticParams(posts) == [i \in 1..Len(posts) |-> [slug |-> posts[i].slug]]

\* without the guard the page body reads post.category of undefined: a TypeError
detailOutcomeNoGuard(post) == IF post = <<>> THEN "error" ELSE "rendered"

\* if (!post) notFound(): notFound() throws NEXT_NOT_FOUND and never returns, so the
\* page body below it runs only with a post
detailOutcomeOf(post) == IF post = <<>> THEN "notFound" ELSE "rendered"

----
(* src/app/sitemap.ts *)

baseUrl == <<"h", "t", "t", "p", "s", ":", Slash, Slash,
             "l", "r", "a", "d", "e", "v", Dot, "a", "p", "p">>

BlogRoute == <<Slash>> \o BlogSeg

\* the static routes; each lastModified is new Date(), the time of the call
routes(clock) ==
    << [url |-> baseUrl, lastModified |-> clock,
        changeFrequency |-> "monthly", priority |-> "1"],
       [url |-> baseUrl \o BlogRoute, lastModified |-> clock,
        changeFrequency |-> "weekly", priority |-> "0.9"] >>

\* allPosts.map(...): lastModified is new Date(post.date), the instant of the post
blogPosts(posts) ==
    [i \in 1..Len(posts) |->
        [url |-> baseUrl \o BlogRoute \o <<Slash>> \o posts[i].slug,
         lastModified |-> posts[i].date,
         changeFrequency |-> "monthly", priority |-> "0.8"]]

\* the post entries placed before the static ones
sitemapPostsFirst(posts, clock) == blogPosts(posts) \o routes(clock)

\* return [...routes, ...blogPosts]
sitemap(posts, clock) == routes(clock) \o blogPosts(posts)

\* The route app/blog/[slug]: the slug parameter of a URL, as an option.  [slug]
\* is one path segment, so a URL with nothing or with a further / after /blog/
\* is not a detail page.
routeSlug(url) ==
    LET prefix == baseUrl \o BlogRoute \o <<Slash>>
        rest == SubSeq(url, Len(prefix) + 1, Len(url))
    IN  IF StartsWith(url, prefix) /\ rest # <<>> /\ ~includes(rest, <<Slash>>)
        THEN <<rest>>
        ELSE <<>>

\* the calendar day (UTC) of an instant, as a sitemap's lastmod shows it
CalendarDay(instant) == instant \div HoursPerDay

----
(* src/components/portfolio/ContactSection.tsx *)

\* useState({ name: "", email: "", message: "" }); the fields are character strings
EmptyForm == [name |-> <<>>, email |-> <<>>, message |-> <<>>]

At == "@"

\* type="email": one @ with something before it and something after it
IsEmailAddress(s) ==
    \E i \in 2..(Len(s) - 1) :
        /\ s[i] = At
        /\ \A j \in 1..Len(s) : s[j] = At => j = i

\* the browser's validation before the submit event: the three controls are
\* required, the email control has type="email"
CanSubmit(data) ==
    /\ data.name # <<>>
    /\ data.email # <<>>
    /\ IsEmailAddress(data.email)
    /\ data.message # <<>>

\* response.ok
ok(r) == r.status >= 200 /\ r.status <= 299

FailedToSend == "Failed to send message"

\* the message of the TypeError fetch rejects with
NetworkErrorMessage == "Failed to fetch"

\* the message of the SyntaxError response.json() rejects with
SyntaxErrorMessage == "Unexpected token < in JSON"

\* a body that is JSON, with its error member as an option, and one that is not
JsonBody(err) == [json |-> TRUE, error |-> err]
Unparsable == [json |-> FALSE, error |-> <<>>]

Response(status, body) == [status |-> status, body |-> body]

\* What the try block throws once fetch has resolved with r, as an option:
\* response.json() is awaited first and rejects on a body that is not JSON; then
\* !response.ok throws data.error || 'Failed to send message'.
thrown(r) ==
    IF ~r.body.json THEN <<SyntaxErrorMessage>>
    ELSE IF ~ok(r)
         THEN << IF Truthy(r.body.error) THEN r.body.error[1] ELSE FailedToSend >>
         ELSE <<>>

----
(* The contact handler behind /api/contact *)

\* the fields of the posted JSON object that are present
HasFields(payload) == {"name", "email", "message"} \subseteq DOMAIN payload

MissingFieldsMessage == "Missing required fields"

\* a handler that forwards whatever it receives
ContactHandlerForwardsAll(payload, deliveryOk) ==
    IF deliveryOk
    THEN [response |-> Response(200, JsonBody(<<>>)), delivered |-> TRUE]
    ELSE [response |-> Response(500, JsonBody(<<FailedToSend>>)), delivered |-> FALSE]

\* One invocation: a payload lacking a field is refused before any delivery; a
\* complete one is forwarded once, and the outcome of the delivery is reported.
ContactHandler(payload, deliveryOk) ==
    IF ~HasFields(payload)
    THEN [response |-> Response(400, JsonBody(<<MissingFieldsMessage>>)), delivered |-> FALSE]
    ELSE IF deliveryOk
         THEN [response |-> Response(200, JsonBody(<<>>)), delivered |-> TRUE]
         ELSE [response |-> Response(500, JsonBody(<<FailedToSend>>)), delivered |-> FALSE]

----
(* The rehype plugins of makeSource: rehype-pretty-code *)

\* contentType of the Post document type
contentType == "markdown"

\* the option the configuration registers its rehype plugins under
pluginsOption(config) == IF config = "current" THEN "markdown" ELSE "mdx"

\* the plugins run on the bodies of the content type they are registered for
PluginsApply(config) == pluginsOption(config) = contentType

\* a token of a highlighted line: an element holding the token's text
Token(text) == [type |-> "element", value |-> text]

\* { type: 'text', value: ' ' }
PlaceholderText == [type |-> "text", value |-> Space]

\* the highlighter makes one line node per source line, its children the tokens of
\* the line; a blank line has no token
LineNode(tokens) == [children |-> [i \in 1..Len(tokens) |-> Token(tokens[i])]]

toLineNodes(source) == [i \in 1..Len(source) |-> LineNode(source[i])]

\* a callback that gives every line the placeholder
onVisitLineAlways(node) == [node EXCEPT !.children = <<PlaceholderText>>]

\* onVisitLine(node)
onVisitLine(node) ==
    IF Len(node.children) = 0
    THEN [node EXCEPT !.children = <<PlaceholderText>>]
    ELSE node

----
(* The content source *)

\* missing: the required fields the front matter lacks or gives with a wrong type
File(path, title, date, excerpt, category, body) ==
    [path |-> path, title |-> title, date |-> date, excerpt |-> excerpt,
     category |-> category, body |-> body, missing |-> {}]

BlogPath(dirs, name) == BlogPrefix \o dirs \o name \o MdExt

\* The content directory of the listing and detail views is drawn from these files.
\* Dates are date-only days; 1 and 3 are each shared by two files.  Categories
\* cover a missing one, an empty one and one spelled like the sentinel.  The paths
\* cover a nested directory named blog, an index file, and names differing in case.
ContentFiles ==
    { File(BlogPath(<<>>, <<"a">>), <<"A", "b">>, DateOnly(2), <<"c">>, <<"News">>, <<"w", Space, "w">>),
      File(BlogPath(<<>>, <<"A">>), <<"b">>, DateOnly(3), <<"B", "a">>, <<>>, <<>>),
      File(BlogPath(<<"a", Slash>>, IndexSeg), <<"a", "b">>, DateOnly(1), <<"a">>, <<"all">>, <<"w">>),
      File(BlogPath(BlogPrefix, <<"a">>), <<"B">>, DateOnly(3), <<>>, <<"">>, <<Newline>>),
      File(BlogPath(<<>>, <<"b">>), <<"a", Space, "b">>, DateOnly(1), <<"C">>, <<"News">>, <<"w", Newline>>),
      File(BlogPath(<<>>, <<"c">>), <<"c">>, DateOnly(2), <<"A", "B">>, <<"Dev">>, <<"w">>) }

\* the sequences of at most n distinct elements of S
DistinctSeqs(S, n) ==
    UNION { { s \in [1..k -> S] : \A i, j \in 1..k : i # j => s[i] # s[j] } : k \in 0..n }

\* what the user can type into the search box
SearchTexts == { <<>>, <<"a">>, <<"B">>, <<"A", "B">>, <<"b", "a">>, <<"z">> }

\* the slugs a request can carry: those of the content files, and one of no file
SlugRequests == { slug(flattenedPath(f.path)) : f \in ContentFiles } \cup { <<"z">> }

----
(* Initial states *)

HighlightIdle ==
    /\ sourceConfig = "current"
    /\ codeSource = <<>>
    /\ codeLines = <<>>
    /\ visited = 0
    /\ highlighting = "raw"

ContactIdle ==
    /\ formData = EmptyForm
    /\ isSubmitting = FALSE
    /\ submitted = FALSE
    /\ error = ""
    /\ pc = "idle"
    /\ request = <<>>
    /\ response = <<>>
    /\ submitCount = 0
    /\ requestCount = 0
    /\ deliveries = {}
    /\ apiRequest = <<>>
    /\ apiResponse = <<>>

ViewsIdle ==
    /\ mounted = FALSE
    /\ sortedPosts = <<>>
    /\ searchQuery = <<>>
    /\ selectedCategory = AllCategories
    /\ filteredPosts = <<>>
    /\ categories = <<>>
    /\ requestedSlug = <<>>
    /\ detailPost = <<>>
    /\ detailOutcome = "idle"
    /\ now = 0
    /\ sitemapResult = <<>>
    /\ previousSitemap = <<>>
    /\ ContactIdle

Init ==
    /\ files \in DistinctSeqs(ContentFiles, MaxFiles)
    /\ timezoneOffset = 0
    /\ phase = "source"
    /\ allPosts = <<>>
    /\ ViewsIdle
    /\ HighlightIdle

----
(* Actions *)

\* the contentlayer build: the collection is generated once, from all matched files
Build ==
    /\ phase = "source"
    /\ phase' = IF BuildFails(files) THEN "failed" ELSE "built"
    /\ allPosts' = IF BuildFails(files) THEN <<>> ELSE CompileAll(files, timezoneOffset)
    /\ UNCHANGED <<files, timezoneOffset, listingVars, detailVars, sitemapVars,
                   highlightVars, contactVars>>

\* first render of BlogPage: the two useMemo([]) run, the state is the default one
MountBlogPage ==
    /\ phase = "built"
    /\ ~mounted
    /\ mounted' = TRUE
    /\ sortedPosts' = sort(allPosts)
    /\ categories' = categoriesOf(allPosts)
    /\ searchQuery' = <<>>
    /\ selectedCategory' = AllCategories
    /\ filteredPosts' = filterPosts(sortedPosts', searchQuery', selectedCategory')
    /\ UNCHANGED <<sourceVars, detailVars, sitemapVars, highlightVars, contactVars>>

\* leaving the page drops the component's state and memos
UnmountBlogPage ==
    /\ mounted
    /\ mounted' = FALSE
    /\ sortedPosts' = <<>>
    /\ categories' = <<>>
    /\ searchQuery' = <<>>
    /\ selectedCategory' = AllCategories
    /\ filteredPosts' = <<>>
    /\ UNCHANGED <<sourceVars, detailVars, sitemapVars, highlightVars, contactVars>>

\* a search that narrows the list on display instead of filtering the sorted posts
SetSearchQueryNarrowing(text) ==
    /\ mounted
    /\ searchQuery' = text
    /\ filteredPosts' = filterPosts(filteredPosts, searchQuery', selectedCategory)
    /\ UNCHANGED <<sourceVars, detailVars, sitemapVars, highlightVars, contactVars,
                   mounted, sortedPosts, selectedCategory, categories>>

\* onChange of the search input
SetSearchQuery(text) ==
    /\ mounted
    /\ searchQuery' = text
    /\ filteredPosts' = filterPosts(sortedPosts, searchQuery', selectedCategory)
    /\ UNCHANGED <<sourceVars, detailVars, sitemapVars, highlightVars, contactVars,
                   mounted, sortedPosts, selectedCategory, categories>>

\* onChange of the category select: one of its options
SetSelectedCategory(category) ==
    /\ mounted
    /\ \/ category = AllCategories
       \/ \E i \in 1..Len(categories) : categories[i] = category
    /\ selectedCategory' = category
    /\ filteredPosts' = filterPosts(sortedPosts, searchQuery, selectedCategory')
    /\ UNCHANGED <<sourceVars, detailVars, sitemapVars, highlightVars, contactVars,
                   mounted, sortedPosts, searchQuery, categories>>

\* a reset that clears the search text and forgets the category
ResetSearchOnly ==
    /\ mounted
    /\ Len(filteredPosts) = 0
    /\ searchQuery' = <<>>
    /\ filteredPosts' = filterPosts(sortedPosts, searchQuery', selectedCategory)
    /\ UNCHANGED <<sourceVars, detailVars, sitemapVars, highlightVars, contactVars,
                   mounted, sortedPosts, selectedCategory, categories>>

\* onClick of "Resetta filtri", rendered only in the empty state
ResetFilters ==
    /\ mounted
    /\ Len(filteredPosts) = 0
    /\ searchQuery' = <<>>
    /\ selectedCategory' = AllCategories
    /\ filteredPosts' = filterPosts(sortedPosts, searchQuery', selectedCategory')
    /\ UNCHANGED <<sourceVars, detailVars, sitemapVars, highlightVars, contactVars,
                   mounted, sortedPosts, categories>>

\* a request for /blog/<s>
BlogPostPage(s) ==
    /\ phase = "built"
    /\ requestedSlug' = <<s>>
    /\ detailPost' = find(allPosts, s)
    /\ detailOutcome' = detailOutcomeOf(detailPost')
    /\ UNCHANGED <<sourceVars, listingVars, sitemapVars, highlightVars, contactVars>>

\* the earlier listing page: allPosts.sort(...) sorts the shared array in place
EarlierBlogPage ==
    /\ phase = "built"
    /\ allPosts' = sort(allPosts)
    /\ UNCHANGED <<files, timezoneOffset, phase, listingVars, detailVars, sitemapVars,
                   highlightVars, contactVars>>

CategoryValues == { f.category[1] : f \in { g \in ContentFiles : g.category # <<>> } }

Next ==
    \/ Build
    \/ MountBlogPage
    \/ UnmountBlogPage
    \/ \E text \in SearchTexts : SetSearchQuery(text)
    \/ \E category \in CategoryValues \cup {AllCategories} : SetSelectedCategory(category)
    \/ ResetFilters
    \/ \E s \in SlugRequests : BlogPostPage(s)

Spec == Init /\ [][Next]_vars

\* the listing page and its earlier version, both over the same collection
NextEarlier == Next \/ EarlierBlogPage

SpecEarlier == Init /\ [][NextEarlier]_vars

----
(* The compiler alone, over more paths and over more bodies *)

DirChoices == { <<>>, <<"a", Slash>>, BlogPrefix, IndexSeg \o <<Slash>> }
NameChoices == { <<"a">>, IndexSeg, BlogSeg }

\* paths under the content directory: those the pattern matches, one outside blog/
\* and one that is not Markdown
PathChoices ==
    { BlogPath(d, n) : d \in DirChoices, n \in NameChoices }
        \cup { <<"a", Slash>> \o BlogPrefix \o <<"a">> \o MdExt,
               BlogPrefix \o <<"a", ".", "t", "x", "t">> }

PathFiles == { File(p, <<"t">>, DateOnly(1), <<"e">>, <<>>, <<"w">>) : p \in PathChoices }

InitPaths ==
    /\ files \in DistinctSeqs(PathFiles, MaxPathFiles)
    /\ timezoneOffset = 0
    /\ phase = "source"
    /\ allPosts = <<>>
    /\ ViewsIdle
    /\ HighlightIdle

NextBuild == Build

SpecPaths == InitPaths /\ [][NextBuild]_vars

\* the sequences of DistinctSeqs(S, n) whose files have distinct paths
DistinctPathSeqs(S, n) ==
    { s \in DistinctSeqs(S, n) : \A i, j \in 1..Len(s) : i # j => s[i].path # s[j].path }

\* front matter lacking any subset of the required fields
FrontMatterFiles ==
    { [File(BlogPath(<<>>, n), <<"t">>, DateOnly(1), <<"e">>, <<>>, <<"w">>)
          EXCEPT !.missing = m] : n \in {<<"a">>, <<"b">>}, m \in SUBSET RequiredFields }

InitFrontMatter ==
    /\ files \in DistinctPathSeqs(FrontMatterFiles, MaxPathFiles)
    /\ timezoneOffset = 0
    /\ phase = "source"
    /\ allPosts = <<>>
    /\ ViewsIdle
    /\ HighlightIdle

SpecFrontMatter == InitFrontMatter /\ [][NextBuild]_vars

----
(* The sitemap, over dates of both forms, built in several time zones and called
   at several times *)

TimezoneOffsets == {-1, 0, 1}

SitemapDates == { DateOnly(1), DateTime(1, 0), DateTime(1, 23), DateTime(2, 12) }

SitemapFiles ==
    { File(BlogPath(<<>>, n), <<"t">>, d, <<"e">>, <<>>, <<"w">>) :
        n \in {<<"a">>, <<"b">>}, d \in SitemapDates }

InitSitemap ==
    /\ files \in DistinctPathSeqs(SitemapFiles, MaxPathFiles)
    /\ timezoneOffset \in TimezoneOffsets
    /\ phase = "source"
    /\ allPosts = <<>>
    /\ ViewsIdle
    /\ HighlightIdle

\* time passes between two calls
Tick ==
    /\ now < MaxClock
    /\ now' = now + 1
    /\ UNCHANGED <<sourceVars, listingVars, detailVars, sitemapResult, previousSitemap,
                   contactVars, highlightVars>>

\* one call of sitemap()
Sitemap ==
    /\ phase = "built"
    /\ sitemapResult' = <<sitemap(allPosts, now)>>
    /\ previousSitemap' = sitemapResult
    /\ UNCHANGED <<sourceVars, listingVars, detailVars, now, contactVars, highlightVars>>

NextSitemap == Build \/ Tick \/ Sitemap

SpecSitemap == InitSitemap /\ [][NextSitemap]_vars

----
(* The contact form and the handler it posts to *)

NameValues == { <<>>, <<"n">> }
EmailValues == { <<>>, <<"a">>, <<At>>, <<"a", At, "b">> }
MessageValues == { <<>>, <<"m">> }

FieldValues(field) ==
    IF field = "name" THEN NameValues
    ELSE IF field = "email" THEN EmailValues ELSE MessageValues

\* responses that do not come from the handler: a gateway's HTML error page, and
\* JSON errors without an error string
GatewayResponses ==
    { Response(502, Unparsable), Response(503, JsonBody(<<>>)), Response(500, JsonBody(<<"">>)) }

\* JSON objects posted to the handler without the form
ApiPayloads ==
    { [name |-> <<"n">>, email |-> <<"a", At, "b">>, message |-> <<"m">>],
      [name |-> <<"n">>, message |-> <<"m">>],
      [email |-> <<"a", At, "b">>, message |-> <<"m">>] }

InitContact ==
    /\ files = <<>>
    /\ timezoneOffset = 0
    /\ phase = "source"
    /\ allPosts = <<>>
    /\ ViewsIdle
    /\ HighlightIdle

\* onChange of a control: setFormData({ ...formData, [field]: value })
EditField(field, value) ==
    /\ ~submitted
    /\ formData' = [formData EXCEPT ![field] = value]
    /\ UNCHANGED <<sourceVars, listingVars, detailVars, sitemapVars, highlightVars,
                   isSubmitting,
                   submitted, error, pc, request, response, submitCount, requestCount,
                   handlerVars>>

\* a fetch rejection answered by sending the request again
FetchRejectsAndResends ==
    /\ pc = "fetch"
    /\ requestCount <= MaxSubmits
    /\ requestCount' = requestCount + 1
    /\ UNCHANGED <<sourceVars, listingVars, detailVars, sitemapVars, highlightVars,
                   formData,
                   isSubmitting, submitted, error, pc, request, response, submitCount,
                   handlerVars>>

\* a submit the disabled button does not hold back
SubmitWhileSubmitting ==
    /\ ~submitted
    /\ submitCount < MaxSubmits
    /\ CanSubmit(formData)
    /\ isSubmitting' = TRUE
    /\ error' = ""
    /\ request' = <<formData>>
    /\ response' = <<>>
    /\ pc' = "fetch"
    /\ submitCount' = submitCount + 1
    /\ requestCount' = requestCount + 1
    /\ UNCHANGED <<sourceVars, listingVars, detailVars, sitemapVars, highlightVars,
                   formData, submitted,
                   handlerVars>>

\* a submit that leaves the previous error on display
SubmitKeepsError ==
    /\ ~submitted
    /\ ~isSubmitting
    /\ submitCount < MaxSubmits
    /\ CanSubmit(formData)
    /\ isSubmitting' = TRUE
    /\ error' = error
    /\ request' = <<formData>>
    /\ response' = <<>>
    /\ pc' = "fetch"
    /\ submitCount' = submitCount + 1
    /\ requestCount' = requestCount + 1
    /\ UNCHANGED <<sourceVars, listingVars, detailVars, sitemapVars, highlightVars,
                   formData, submitted,
                   handlerVars>>

\* The submit event of the form, up to the await of fetch.  The form is rendered
\* while submitted is false, its button is disabled while isSubmitting, and the
\* browser raises the event only when the controls are valid.
Submit ==
    /\ ~submitted
    /\ ~isSubmitting
    /\ submitCount < MaxSubmits
    /\ CanSubmit(formData)
    /\ isSubmitting' = TRUE
    /\ error' = ""
    /\ request' = <<formData>>
    /\ response' = <<>>
    /\ pc' = "fetch"
    /\ submitCount' = submitCount + 1
    /\ requestCount' = requestCount + 1
    /\ UNCHANGED <<sourceVars, listingVars, detailVars, sitemapVars, highlightVars,
                   formData, submitted,
                   handlerVars>>

\* fetch rejects (network failure): catch, then finally
FetchRejects ==
    /\ pc = "fetch"
    /\ error' = NetworkErrorMessage
    /\ isSubmitting' = FALSE
    /\ pc' = "idle"
    /\ request' = <<>>
    /\ UNCHANGED <<sourceVars, listingVars, detailVars, sitemapVars, highlightVars,
                   formData, submitted,
                   response, submitCount, requestCount, handlerVars>>

\* the request reaches the handler and fetch resolves with its response
HandlerResponds(deliveryOk) ==
    /\ pc = "fetch"
    /\ LET result == ContactHandler(request[1], deliveryOk)
       IN  /\ response' = <<result.response>>
           /\ deliveries' = IF result.delivered THEN deliveries \cup {request[1]}
                             ELSE deliveries
    /\ pc' = "json"
    /\ request' = <<>>
    /\ UNCHANGED <<sourceVars, listingVars, detailVars, sitemapVars, highlightVars,
                   formData,
                   isSubmitting, submitted, error, submitCount, requestCount,
                   apiRequest, apiResponse>>

\* fetch resolves with a response produced in front of the handler
GatewayResponds(r) ==
    /\ pc = "fetch"
    /\ response' = <<r>>
    /\ pc' = "json"
    /\ request' = <<>>
    /\ UNCHANGED <<sourceVars, listingVars, detailVars, sitemapVars, highlightVars,
                   formData,
                   isSubmitting, submitted, error, submitCount, requestCount,
                   handlerVars>>

\* a failure that also clears the form
JsonSettlesClearsForm ==
    /\ pc = "json"
    /\ IF thrown(response[1]) = <<>>
       THEN /\ submitted' = TRUE
            /\ formData' = EmptyForm
            /\ error' = error
       ELSE /\ error' = thrown(response[1])[1]
            /\ formData' = EmptyForm
            /\ UNCHANGED submitted
    /\ isSubmitting' = FALSE
    /\ pc' = "idle"
    /\ UNCHANGED <<sourceVars, listingVars, detailVars, sitemapVars, highlightVars,
                   request, response,
                   submitCount, requestCount, handlerVars>>

\* a success that clears the form only when it still holds what was sent
JsonSettlesKeepsEdits ==
    /\ pc = "json"
    /\ IF thrown(response[1]) = <<>>
       THEN /\ submitted' = TRUE
            /\ formData' = IF formData \in deliveries THEN EmptyForm ELSE formData
            /\ error' = error
       ELSE /\ error' = thrown(response[1])[1]
            /\ UNCHANGED <<submitted, formData>>
    /\ isSubmitting' = FALSE
    /\ pc' = "idle"
    /\ UNCHANGED <<sourceVars, listingVars, detailVars, sitemapVars, highlightVars,
                   request, response,
                   submitCount, requestCount, handlerVars>>

\* isSubmitting cleared on success only, not in a finally
JsonSettlesWithoutFinally ==
    /\ pc = "json"
    /\ IF thrown(response[1]) = <<>>
       THEN /\ submitted' = TRUE
            /\ formData' = EmptyForm
            /\ error' = error
            /\ isSubmitting' = FALSE
       ELSE /\ error' = thrown(response[1])[1]
            /\ UNCHANGED <<submitted, formData, isSubmitting>>
    /\ pc' = "idle"
    /\ UNCHANGED <<sourceVars, listingVars, detailVars, sitemapVars, highlightVars,
                   request, response,
                   submitCount, requestCount, handlerVars>>

\* response.json() settles and handleSubmit runs to its end
JsonSettles ==
    /\ pc = "json"
    /\ IF thrown(response[1]) = <<>>
       THEN /\ submitted' = TRUE
            /\ formData' = EmptyForm
            /\ error' = error
       ELSE /\ error' = thrown(response[1])[1]
            /\ UNCHANGED <<submitted, formData>>
    /\ isSubmitting' = FALSE
    /\ pc' = "idle"
    /\ UNCHANGED <<sourceVars, listingVars, detailVars, sitemapVars, highlightVars,
                   request, response,
                   submitCount, requestCount, handlerVars>>

\* a POST to /api/contact made without the form
ApiPost(payload, deliveryOk) ==
    /\ LET result == ContactHandler(payload, deliveryOk)
       IN  /\ apiResponse' = <<result.response>>
           /\ deliveries' = IF result.delivered THEN deliveries \cup {payload}
                             ELSE deliveries
    /\ apiRequest' = <<payload>>
    /\ UNCHANGED <<sourceVars, listingVars, detailVars, sitemapVars, highlightVars,
                   formVars>>

NextContact ==
    \/ \E field \in {"name", "email", "message"} :
          \E value \in FieldValues(field) : EditField(field, value)
    \/ Submit
    \/ FetchRejects
    \/ \E deliveryOk \in BOOLEAN : HandlerResponds(deliveryOk)
    \/ \E r \in GatewayResponses : GatewayResponds(r)
    \/ JsonSettles
    \/ \E payload \in ApiPayloads : \E deliveryOk \in BOOLEAN : ApiPost(payload, deliveryOk)

SpecContact == InitContact /\ [][NextContact]_vars

\* once fetch has resolved, the rest of handleSubmit is a continuation the event
\* loop runs: it is not postponed forever
SpecContactLive == SpecContact /\ WF_vars(JsonSettles)

----
(* Highlighting of a fenced code block, under both configurations *)

TokenLines == { <<>>, <<"a">>, <<"a", "b">>, <<Space>> }

CodeSources == UNION { [1..k -> TokenLines] : k \in 0..MaxLines }

InitHighlight ==
    /\ files = <<>>
    /\ timezoneOffset = 0
    /\ phase = "source"
    /\ allPosts = <<>>
    /\ ViewsIdle
    /\ sourceConfig \in {"current", "earlier"}
    /\ codeSource \in CodeSources
    /\ codeLines = <<>>
    /\ visited = 0
    /\ highlighting = "raw"

\* the body is rendered: with the plugins applying, the code block becomes line
\* nodes; otherwise it is left as it is
Highlight ==
    /\ highlighting = "raw"
    /\ IF PluginsApply(sourceConfig)
       THEN /\ codeLines' = toLineNodes(codeSource)
            /\ highlighting' = IF Len(codeSource) = 0 THEN "done" ELSE "lines"
       ELSE /\ codeLines' = <<>>
            /\ highlighting' = "skipped"
    /\ UNCHANGED <<sourceVars, listingVars, detailVars, sitemapVars, contactVars,
                   sourceConfig, codeSource, visited>>

\* the highlighter visits the next line node and calls onVisitLine on it; line
\* nodes exist only under the configuration that passes the callback
VisitLine ==
    /\ highlighting = "lines"
    /\ visited < Len(codeLines)
    /\ codeLines' = [codeLines EXCEPT ![visited + 1] = onVisitLine(@)]
    /\ visited' = visited + 1
    /\ highlighting' = IF visited' = Len(codeLines) THEN "done" ELSE "lines"
    /\ UNCHANGED <<sourceVars, listingVars, detailVars, sitemapVars, contactVars,
                   sourceConfig, codeSource>>

NextHighlight == Highlight \/ VisitLine

SpecHighlight == InitHighlight /\ [][NextHighlight]_vars

\* word counts around the multiples of the reading speed
WordCounts ==
    { 0, 1, wordsPerMinute - 1, wordsPerMinute, wordsPerMinute + 1,
      2 * wordsPerMinute - 1, 2 * wordsPerMinute, 2 * wordsPerMinute + 1 }

\* a body: lead newlines, n one-letter words separated by sep spaces, trail newlines
Body(lead, n, sep, trail) ==
    LET inner == IF n = 0 THEN 0 ELSE n + (n - 1) * sep
        total == lead + inner + trail
    IN  [i \in 1..total |->
            IF i <= lead \/ i > lead + inner THEN Newline
            ELSE IF (i - lead - 1) % (1 + sep) = 0 THEN "w" ELSE Space]

BodyChoices ==
    { Body(lead, n, sep, trail) :
        lead \in 0..MaxPad, n \in WordCounts, sep \in 1..MaxPad, trail \in 0..MaxPad }

BodyFiles == { File(BlogPath(<<>>, <<"a">>), <<"t">>, DateOnly(1), <<"e">>, <<>>, b) : b \in BodyChoices }

InitBodies ==
    /\ files \in DistinctSeqs(BodyFiles, 1)
    /\ timezoneOffset = 0
    /\ phase = "source"
    /\ allPosts = <<>>
    /\ ViewsIdle
    /\ HighlightIdle

SpecBodies == InitBodies /\ [][NextBuild]_vars

----
(* Claims *)

Built == phase = "built"

DefaultFilter == searchQuery = <<>> /\ selectedCategory = AllCategories

\* the positions of post p in the sequence posts
PositionsIn(posts, p) == {i \in 1..Len(posts) : posts[i] = p}

\* n occurs in h as a contiguous part
Contains(h, n) ==
    \E i \in 0..Len(h) : \E j \in i..Len(h) : SubSeq(h, i + 1, j) = n

\* C1: with the default filter state (search text "", category "all") the listing
\* holds every post of the collection exactly once, and a post with a later date
\* stands before every post with an earlier date.
C1_DefaultListingCompleteAndDescending ==
    (mounted /\ DefaultFilter) =>
        /\ Len(filteredPosts) = Len(allPosts)
        /\ \A k \in 1..Len(allPosts) :
              Cardinality(PositionsIn(filteredPosts, allPosts[k])) = 1
        /\ \A i, j \in 1..Len(filteredPosts) :
              filteredPosts[i].date > filteredPosts[j].date => i < j

\* the default listing of three posts that the collection holds in another order
C1_Witness ==
    /\ mounted /\ DefaultFilter
    /\ Len(allPosts) = 3
    /\ allPosts[1].date < allPosts[2].date
    /\ allPosts[2].date < allPosts[3].date
    /\ filteredPosts # allPosts

\* C2: the listing sort is stable: two posts of equal date stand in the listing
\* (sorted, and sorted then filtered) in the order the collection holds them.
C2_ListingSortStable ==
    mounted =>
        /\ \A i, j \in 1..Len(sortedPosts) :
              (i < j /\ sortedPosts[i].date = sortedPosts[j].date) =>
                  Min(PositionsIn(allPosts, sortedPosts[i]))
                      < Min(PositionsIn(allPosts, sortedPosts[j]))
        /\ \A i, j \in 1..Len(filteredPosts) :
              (i < j /\ filteredPosts[i].date = filteredPosts[j].date) =>
                  Min(PositionsIn(allPosts, filteredPosts[i]))
                      < Min(PositionsIn(allPosts, filteredPosts[j]))

\* a listing the sort has reordered, holding two posts of equal date that the
\* collection holds with a post of a later date between them
C2_Witness ==
    /\ mounted
    /\ Len(allPosts) = 3
    /\ allPosts[1].date = allPosts[3].date
    /\ allPosts[2].date > allPosts[1].date
    /\ sortedPosts = <<allPosts[2], allPosts[1], allPosts[3]>>
    /\ filteredPosts = sortedPosts

\* C3: a post of the collection is in the filtered listing iff (the search text is
\* empty, or the lowercased title or the lowercased excerpt contains the lowercased
\* search text) and (the selected category is "all" or is the post's category); a
\* post without category is listed only under "all".
C3_FilterPredicate ==
    mounted =>
        \A k \in 1..Len(allPosts) :
            LET post == allPosts[k]
                listed == PositionsIn(filteredPosts, post) # {}
                searchOk ==
                    \/ searchQuery = <<>>
                    \/ Contains(toLowerCase(post.title), toLowerCase(searchQuery))
                    \/ Contains(toLowerCase(post.excerpt), toLowerCase(searchQuery))
                categoryOk ==
                    \/ selectedCategory = AllCategories
                    \/ (post.category # <<>> /\ post.category[1] = selectedCategory)
            IN  /\ listed <=> (searchOk /\ categoryOk)
                /\ (listed /\ post.category = <<>>) => selectedCategory = AllCategories

\* a search text and a category that keep some posts and drop others, one kept post
\* matching only because the case is lowered, one dropped post having no category
C3_Witness ==
    /\ mounted
    /\ searchQuery # <<>>
    /\ selectedCategory # AllCategories
    /\ \E i \in 1..Len(filteredPosts) :
          /\ ~Contains(filteredPosts[i].title, searchQuery)
          /\ ~Contains(filteredPosts[i].excerpt, searchQuery)
    /\ \E k \in 1..Len(allPosts) :
          /\ allPosts[k].category = <<>>
          /\ PositionsIn(filteredPosts, allPosts[k]) = {}
          /\ Contains(toLowerCase(allPosts[k].title), toLowerCase(searchQuery))

\* C4: the listing never mutates the shared collection: once built it holds the
\* posts of the content files in discovery order, however often a listing renders.
C4_CollectionNeverMutated ==
    Built => allPosts = CompileAll(files, timezoneOffset)

\* C5: the detail lookup returns the first post, in collection order, whose slug
\* equals the requested slug exactly, and no post when no slug equals it.
C5_LookupFirstExactMatch ==
    detailOutcome # "idle" =>
        LET matches == {i \in 1..Len(allPosts) : allPosts[i].slug = requestedSlug[1]}
        IN  IF matches = {} THEN detailPost = <<>>
            ELSE detailPost = <<allPosts[Min(matches)]>>

\* a lookup answered with the first of two posts that carry the requested slug
C5_Witness ==
    /\ detailOutcome = "rendered"
    /\ \E i, j \in 1..Len(allPosts) :
          /\ i < j
          /\ allPosts[i].slug = requestedSlug[1]
          /\ allPosts[j].slug = requestedSlug[1]
          /\ allPosts[i] # allPosts[j]
          /\ detailPost = <<allPosts[i]>>

\* C6: a request for a slug that no post of the collection carries ends in the
\* "not found" outcome; it never ends in an error, and the page body is rendered
\* only with a post.
C6_UnknownSlugIsNotFound ==
    detailOutcome # "idle" =>
        /\ (\A i \in 1..Len(allPosts) : allPosts[i].slug # requestedSlug[1])
              => detailOutcome = "notFound"
        /\ detailOutcome # "error"
        /\ detailOutcome = "rendered" => detailPost # <<>>

\* a request whose slug differs only in case from a slug of the collection
C6_Witness ==
    /\ detailOutcome = "notFound"
    /\ \A i \in 1..Len(allPosts) : allPosts[i].slug # requestedSlug[1]
    /\ \E i \in 1..Len(allPosts) :
          toLowerCase(allPosts[i].slug) = toLowerCase(requestedSlug[1])

\* C7: the posts compiled from any set of files matched by blog/**/*.md have
\* pairwise distinct slugs.
C7_SlugsPairwiseDistinct ==
    Built =>
        \A i, j \in 1..Len(allPosts) : i # j => allPosts[i].slug # allPosts[j].slug

\* C8: a post's slug is its flattened path with the prefix 'blog/' stripped: the
\* prefix followed by the slug is the flattened path (so the prefix, with its
\* separator, is gone and nothing else is), and a flattened path that does not
\* start with the prefix is the slug as it stands.
C8_SlugIsFlattenedPathWithoutPrefix ==
    Built =>
        \A i \in 1..Len(allPosts) :
            LET post == allPosts[i]
            IN  IF StartsWith(post.flattenedPath, BlogPrefix)
                THEN BlogPrefix \o post.slug = post.flattenedPath
                ELSE post.slug = post.flattenedPath

\* the post of a file in a nested directory itself named blog
C8_Witness ==
    /\ Built
    /\ \E i \in 1..Len(allPosts) :
          /\ StartsWith(allPosts[i].flattenedPath, BlogPrefix \o BlogPrefix)
          /\ StartsWith(allPosts[i].slug, BlogPrefix)

\* "<N> min"
FormatMinutes(n) == NumberToString(n) \o MinSuffix

\* C9: readTime is ceil(wordCount / 200) formatted as "<N> min", wordCount being
\* the number of words of the body, whatever whitespace precedes or follows them
\* (stated here for the bodies that hold a word; 400 words give "2 min").
C9_ReadTimeIsCeilOfWordCount ==
    Built =>
        \A i \in 1..Len(allPosts) :
            WordRuns(allPosts[i].body) >= 1 =>
                allPosts[i].readTime
                    = FormatMinutes(ceilDiv(WordRuns(allPosts[i].body), wordsPerMinute))

\* C10: for every body, the empty one and one of whitespace only included,
\* readTime is "<N> min" with N at least 1, and never "0 min".
C10_ReadTimeAtLeastOneMinute ==
    Built =>
        \A i \in 1..Len(allPosts) :
            /\ allPosts[i].readTime # FormatMinutes(0)
            /\ \E n \in 1..(Len(allPosts[i].body) + 1) :
                  allPosts[i].readTime = FormatMinutes(n)

\* the post of a file with an empty body
C10_Witness ==
    /\ Built
    /\ \E i \in 1..Len(allPosts) : allPosts[i].body = <<>>

\* C11: filtering is idempotent: the filter applied, with the same search text and
\* category, to its own result gives the same list.  The listing reaches every
\* search text and category offered, so the displayed list covers each pair.
C11_FilterIdempotent ==
    mounted => filterPosts(filteredPosts, searchQuery, selectedCategory) = filteredPosts

\* a displayed list that a search text and a category have narrowed, not to nothing
C11_Witness ==
    /\ mounted
    /\ searchQuery # <<>>
    /\ selectedCategory # AllCategories
    /\ filteredPosts # <<>>
    /\ Len(filteredPosts) < Len(sortedPosts)

\* C12: the category facet is the set of distinct non-empty category values of the
\* posts: each such value is offered once, and a post whose category is missing or
\* empty adds no entry.
C12_CategoryFacet ==
    mounted =>
        /\ {categories[i] : i \in 1..Len(categories)}
              = {allPosts[k].category[1] :
                    k \in {n \in 1..Len(allPosts) :
                              allPosts[n].category # <<>> /\ allPosts[n].category[1] # ""}}
        /\ \A i, j \in 1..Len(categories) : i # j => categories[i] # categories[j]
        /\ \A i \in 1..Len(categories) : categories[i] # ""

\* a facet of one entry over three posts: two share a category, one has an empty one
C12_Witness ==
    /\ mounted
    /\ Len(allPosts) = 3
    /\ \E k \in 1..3 : allPosts[k].category = <<"">>
    /\ \E i, j \in 1..3 : i # j /\ allPosts[i].category = allPosts[j].category
          /\ allPosts[i].category # <<>> /\ allPosts[i].category[1] # ""
    /\ Len(categories) = 1

\* no post of the collection satisfies the filter predicate of the current state
NoPostMatches ==
    \A k \in 1..Len(allPosts) :
        ~ /\ \/ searchQuery = <<>>
             \/ Contains(toLowerCase(allPosts[k].title), toLowerCase(searchQuery))
             \/ Contains(toLowerCase(allPosts[k].excerpt), toLowerCase(searchQuery))
          /\ \/ selectedCategory = AllCategories
             \/ allPosts[k].category = <<selectedCategory>>

\* C13: in every listing state where no post matches the search text and category
\* the reset is available, and a reset leaves the search text "" and the category
\* "all".
C13_ResetAvailableAndClears ==
    /\ [](mounted /\ NoPostMatches => ENABLED ResetFilters)
    /\ [][ResetFilters => (searchQuery' = <<>> /\ selectedCategory' = AllCategories)]_vars

\* an empty listing under a search text and a category, over a non-empty collection
C13_Witness ==
    /\ mounted
    /\ Len(allPosts) > 0
    /\ NoPostMatches
    /\ searchQuery # <<>>
    /\ selectedCategory # AllCategories
    /\ ENABLED ResetFilters

----
(* The sitemap *)

\* C14: the sitemap is the home entry, the listing entry, then one entry per post
\* in collection order, each with the URL <base>/blog/<slug> and the post's date as
\* lastModified: 2 + N entries for N posts.
C14_SitemapEntries ==
    sitemapResult # <<>> =>
        LET entries == sitemapResult[1]
        IN  /\ Len(entries) = 2 + Len(allPosts)
            /\ entries[1].url = baseUrl
            /\ entries[2].url = baseUrl \o <<Slash, "b", "l", "o", "g">>
            /\ \A i \in 1..Len(allPosts) :
                  /\ entries[2 + i].url
                        = baseUrl \o <<Slash, "b", "l", "o", "g", Slash>> \o allPosts[i].slug
                  /\ entries[2 + i].lastModified = allPosts[i].date

\* a sitemap of two posts with different slugs and different dates
C14_Witness ==
    /\ sitemapResult # <<>>
    /\ Len(allPosts) = 2
    /\ Len(sitemapResult[1]) = 4
    /\ allPosts[1].slug # allPosts[2].slug
    /\ allPosts[1].date # allPosts[2].date

\* C15: two calls of sitemap() over the same collection return the same entries,
\* the lastModified of the home and listing entries included, whatever the times
\* of the calls.
C15_SitemapDeterministic ==
    (sitemapResult # <<>> /\ previousSitemap # <<>>) => sitemapResult = previousSitemap

\* C16: the lastModified of every post entry falls on the calendar day written in
\* the front matter of the post's file.
C16_LastModifiedOnFrontMatterDay ==
    sitemapResult # <<>> =>
        \A i \in 1..Len(files) :
            CalendarDay(sitemapResult[1][2 + i].lastModified) = files[i].date.day

----
(* Invalid front matter *)

\* C17: once the build has run, either some matched file lacks a required field
\* and the build has failed with no collection, or none does and the collection
\* holds one post per matched file.
C17_CompilationAllOrNothing ==
    phase # "source" =>
        IF \E i \in 1..Len(MatchedFiles(files)) : MatchedFiles(files)[i].missing # {}
        THEN phase = "failed" /\ allPosts = <<>>
        ELSE phase = "built" /\ Len(allPosts) = Len(MatchedFiles(files))

----
(* The contact form *)

\* C18: every submission issues exactly one request; a request is issued only by
\* a submit; and when the request fails (fetch rejects, the body is not JSON, or
\* the status is not 2xx) the form ends idle with a non-empty error, without the
\* confirmation and without another request.
C18_OneRequestPerSubmission ==
    /\ [](requestCount = submitCount)
    /\ [][requestCount' # requestCount =>
              (requestCount' = requestCount + 1 /\ submitCount' = submitCount + 1)]_vars
    /\ [][(\/ FetchRejects
           \/ (JsonSettles /\ (~response[1].body.json \/ ~ok(response[1])))) =>
              (error' # "" /\ ~submitted' /\ pc' = "idle" /\ ~isSubmitting'
                  /\ requestCount' = requestCount)]_vars

\* a second submission, made by the user after a failed one, has failed too
C18_Witness ==
    /\ submitCount = 2
    /\ requestCount = 2
    /\ pc = "idle"
    /\ error # ""
    /\ ~submitted

\* C19: once a response has been handled, a 2xx status shows the confirmation and
\* no error; any other status shows no confirmation and, as the error, the
\* response's error string, or 'Failed to send message' when it carries none.
C19_StatusDecidesOutcome ==
    (pc = "idle" /\ response # <<>>) =>
        LET r == response[1]
        IN  IF r.status >= 200 /\ r.status <= 299
            THEN submitted /\ error = ""
            ELSE /\ ~submitted
                 /\ error = IF r.body.json /\ r.body.error # <<>> /\ r.body.error[1] # ""
                             THEN r.body.error[1]
                             ELSE "Failed to send message"

\* C20: a POST without the email field is answered with a non-2xx status and a
\* non-empty error string; nothing without an email is ever delivered; and the
\* form sends no request, hence shows no confirmation, while its email is empty.
C20_MissingEmailRefused ==
    /\ (apiRequest # <<>> /\ "email" \notin DOMAIN apiRequest[1]) =>
          /\ ~(apiResponse[1].status >= 200 /\ apiResponse[1].status <= 299)
          /\ apiResponse[1].body.json
          /\ apiResponse[1].body.error # <<>>
          /\ apiResponse[1].body.error[1] # ""
    /\ \A p \in deliveries : "email" \in DOMAIN p /\ p.email # <<>>
    /\ request # <<>> => request[1].email # <<>>
    /\ formData.email = <<>> => ~ENABLED Submit

\* a POST without email has been refused, and the form is filled in but for the email
C20_Witness ==
    /\ apiRequest # <<>>
    /\ "email" \notin DOMAIN apiRequest[1]
    /\ ~(apiResponse[1].status >= 200 /\ apiResponse[1].status <= 299)
    /\ formData.name # <<>>
    /\ formData.message # <<>>
    /\ formData.email = <<>>
    /\ deliveries # {}

----
(* Code lines *)

\* C21: every line the highlighter has visited has content: a line made of a
\* blank source line holds exactly the placeholder text, a line made of tokens
\* holds those tokens unchanged; when highlighting is done every line is visited.
C21_NoEmptyCodeLine ==
    /\ highlighting = "done" => (visited = Len(codeLines) /\ Len(codeLines) = Len(codeSource))
    /\ highlighting \in {"lines", "done"} =>
          \A i \in 1..visited :
              /\ codeLines[i].children # <<>>
              /\ IF codeSource[i] = <<>>
                 THEN codeLines[i].children = << [type |-> "text", value |-> " "] >>
                 ELSE codeLines[i].children
                          = [k \in 1..Len(codeSource[i]) |->
                                [type |-> "element", value |-> codeSource[i][k]]]

\* a highlighted block with a blank line between two lines of code
C21_Witness ==
    /\ highlighting = "done"
    /\ Len(codeLines) = 3
    /\ codeSource[2] = <<>>
    /\ codeSource[1] # <<>>
    /\ codeSource[3] # <<>>
    /\ codeLines[2].children # <<>>

----
(* The listing as a function of its inputs *)

\* C22: whatever edits, selections and resets came before, the displayed list is
\* the filter, by the current search text and category, of the posts sorted by
\* date descending: a function of the posts and the two current values alone.
C22_ListingIsPureFunction ==
    mounted => filteredPosts = filterPosts(sort(allPosts), searchQuery, selectedCategory)

\* a widened search: a one-letter text, no category, and a list of several posts
\* that is not the whole collection
C22_Witness ==
    /\ mounted
    /\ Len(searchQuery) = 1
    /\ selectedCategory = AllCategories
    /\ Len(filteredPosts) >= 2
    /\ Len(filteredPosts) < Len(allPosts)

----
(* The contact form: failure, success, one request at a time *)

\* C23: a step in which a submission fails (fetch rejects, the body is not JSON, or
\* the status is not 2xx) leaves name, email and message as they are and submitted
\* false; and an idle, unconfirmed form with valid content can be submitted again.
C23_FailureKeepsForm ==
    /\ [][(\/ FetchRejects
           \/ (JsonSettles /\ (~response[1].body.json \/ ~ok(response[1])))) =>
              (formData' = formData /\ ~submitted')]_vars
    /\ []((pc = "idle" /\ ~submitted /\ CanSubmit(formData) /\ submitCount < MaxSubmits)
              => ENABLED Submit)

\* a failed first submission whose content is still in the form, ready to be resent
C23_Witness ==
    /\ submitCount = 1
    /\ pc = "idle"
    /\ response # <<>>
    /\ error # ""
    /\ ~submitted
    /\ CanSubmit(formData)
    /\ ENABLED Submit

\* C24: the step that handles a 2xx response with a JSON body sets submitted and
\* empties the three fields, whatever the form holds by then; and submitted is
\* true only with such a response.
C24_SuccessClearsForm ==
    /\ [][(JsonSettles /\ response[1].body.json /\ ok(response[1])) =>
              (/\ submitted'
               /\ formData' = [name |-> <<>>, email |-> <<>>, message |-> <<>>])]_vars
    /\ [](submitted =>
             /\ response # <<>>
             /\ response[1].body.json
             /\ response[1].status >= 200 /\ response[1].status <= 299)

\* the confirmation, over an emptied form, after a delivered message
C24_Witness ==
    /\ submitted
    /\ formData = [name |-> <<>>, email |-> <<>>, message |-> <<>>]
    /\ response # <<>>
    /\ response[1].status = 200
    /\ deliveries # {}

\* C25: isSubmitting is true exactly from the start of a submission until its
\* request has settled and been handled; while it is true no submit can start, and
\* a request is in flight only then.
C25_OneRequestInFlight ==
    /\ isSubmitting <=> pc # "idle"
    /\ isSubmitting => ~ENABLED Submit
    /\ request # <<>> => (isSubmitting /\ pc = "fetch")

\* a request in flight while the form holds valid content
C25_Witness ==
    /\ isSubmitting
    /\ pc = "fetch"
    /\ request # <<>>
    /\ CanSubmit(formData)
    /\ submitCount < MaxSubmits

\* C26: once fetch has resolved, isSubmitting eventually becomes false; a
\* rejection makes it false at once; and it is true only while the request or the
\* reading of its body is pending.
C26_SubmittingEnds ==
    /\ (pc = "json") ~> ~isSubmitting
    /\ [][FetchRejects => ~isSubmitting']_vars
    /\ [](isSubmitting => pc \in {"fetch", "json"})

\* a failed response has been handled and the button is enabled again
C26_Witness ==
    /\ response # <<>>
    /\ ~ok(response[1])
    /\ pc = "idle"
    /\ ~isSubmitting

\* C27: submitted implies an empty error; once submitted is true it stays true and
\* the form sends no further request.
C27_SubmittedIsFinal ==
    /\ [](submitted => error = "")
    /\ [](submitted => ~ENABLED Submit)
    /\ [][submitted => (submitted' /\ requestCount' = requestCount)]_vars

\* the confirmation reached by a second submission, the first having failed
C27_Witness ==
    /\ submitted
    /\ submitCount = 2
    /\ error = ""

----
(* Facet, static params and order of the listing *)

\* C28: while a category of the facet is selected, the listing holds exactly the
\* posts whose category is that value and that match the search text, whatever
\* the value is, "all" included.
C28_FacetSelectionShowsCategory ==
    mounted =>
        \A c \in 1..Len(categories) :
            selectedCategory = categories[c] =>
                \A k \in 1..Len(allPosts) :
                    LET post == allPosts[k]
                    IN  PositionsIn(filteredPosts, post) # {}
                            <=> /\ post.category = <<categories[c]>>
                                /\ \/ searchQuery = <<>>
                                   \/ Contains(toLowerCase(post.title), toLowerCase(searchQuery))
                                   \/ Contains(toLowerCase(post.excerpt), toLowerCase(searchQuery))

\* C29: generateStaticParams yields one param per post; the lookup of the i-th
\* param's slug finds the i-th post; and every post URL of the sitemap routes to
\* the detail page of the post it was made for.
C29_StaticParamsAndLookupAgree ==
    Built =>
        LET params == generateStaticParams(allPosts)
            entries == sitemap(allPosts, now)
        IN  /\ Len(params) = Len(allPosts)
            /\ \A i \in 1..Len(allPosts) :
                  /\ find(allPosts, params[i].slug) = <<allPosts[i]>>
                  /\ routeSlug(entries[2 + i].url) # <<>>
                  /\ find(allPosts, routeSlug(entries[2 + i].url)[1]) = <<allPosts[i]>>

\* a post satisfies the filter predicate of the current state
PostMatches(post) ==
    /\ \/ searchQuery = <<>>
       \/ Contains(toLowerCase(post.title), toLowerCase(searchQuery))
       \/ Contains(toLowerCase(post.excerpt), toLowerCase(searchQuery))
    /\ \/ selectedCategory = AllCategories
       \/ post.category = <<selectedCategory>>

\* C30: the displayed list is a subsequence of the date-sorted list in the same
\* order, without a repeated post; so it is in descending date order, and its
\* length is the number of posts of the collection that match.
C30_FilteredIsOrderedSubsequence ==
    mounted =>
        /\ \A i \in 1..Len(filteredPosts) : PositionsIn(sortedPosts, filteredPosts[i]) # {}
        /\ \A i, j \in 1..Len(filteredPosts) :
              i < j =>
                  /\ filteredPosts[i] # filteredPosts[j]
                  /\ \E a, b \in 1..Len(sortedPosts) :
                        a < b /\ sortedPosts[a] = filteredPosts[i]
                              /\ sortedPosts[b] = filteredPosts[j]
                  /\ filteredPosts[i].date >= filteredPosts[j].date
        /\ Len(filteredPosts)
              = Cardinality({k \in 1..Len(allPosts) : PostMatches(allPosts[k])})

\* a search text that keeps two posts of different dates and drops a third
C30_Witness ==
    /\ mounted
    /\ searchQuery # <<>>
    /\ Len(sortedPosts) = 3
    /\ Len(filteredPosts) = 2
    /\ filteredPosts[1].date > filteredPosts[2].date

====
